---- MODULE Spec2Model ----
(***************************************************************************)
(* Model of the finstrat signal-scoring repository:                        *)
(*   database.py    the SQLite store (stock_prices, past_picks)            *)
(*   analysis.py    calculate_metrics, score_stock, get_top_picks          *)
(*   data_loader.py fetch_data, update_database                            *)
(* Tables are bags / sequences of rows, DataFrames are records holding a   *)
(* sequence of rows, and the functions of the source are operators that    *)
(* return the new table (and the value returned to the caller).            *)
(***************************************************************************)
EXTENDS Bags, FiniteSets, Integers, Sequences, TLC

VARIABLES
    stock_prices,   \* table stock_prices: a bag of rows
    past_picks,     \* table past_picks: rows in id order
    last,           \* what the last call was and what it returned
    args,           \* the arguments of the last call to analysis.py
    procs           \* the runs in flight: each one's position and locals

vars == <<stock_prices, past_picks, last, args, procs>>

(***************************************************************************)
(* Bounds of the model.                                                    *)
(***************************************************************************)
\* timestamps are the hours 1..MaxTs
MaxTs == 3
\* a fetched DataFrame holds at most MaxBatch rows
MaxBatch == 3
\* past_picks is filled up to MaxPicks rows
MaxPicks == 3

(***************************************************************************)
(* Generic helpers.                                                        *)
(***************************************************************************)
SeqsUpTo(S, n) == UNION {[1..k -> S] : k \in 0..n}

Range(s) == {s[i] : i \in DOMAIN s}

(***************************************************************************)
(* Timestamps.  pandas writes a datetime column to SQLite as fixed-width   *)
(* text; SQL compares that text character by character; pd.to_datetime     *)
(* parses it back.  The hour h is written as its three decimal digits.     *)
(***************************************************************************)
\* to_sql's adaptation of a timestamp to TEXT
FormatTs(h) == <<h \div 100, (h \div 10) % 10, h % 10>>

\* pd.to_datetime of a stored TEXT timestamp
to_datetime(txt) == 100 * txt[1] + 10 * txt[2] + txt[3]

\* SQLite's TEXT comparison a < b (fixed width, character by character)
TextLess(a, b) ==
    \/ a[1] < b[1]
    \/ a[1] = b[1] /\ a[2] < b[2]
    \/ a[1] = b[1] /\ a[2] = b[2] /\ a[3] < b[3]

(***************************************************************************)
(* Inputs of the store operations.                                         *)
(***************************************************************************)
StoreTickers == {"KO", "NVDA"}

\* the provider's bar of hour h (open/high/low travel with close); history
\* does not change between two fetches
Bar(h) == [timestamp |-> h, close |-> 100 + h, volume |-> 1000]

\* yfinance names the index Datetime (intraday) or Date (daily); any other
\* name leaves the frame without a 'timestamp' column
IndexNames == {"Datetime", "Date", "index"}

\* the provider returns rows in chronological order; an hour may repeat
Chronological(hs) == \A i \in 1..(Len(hs) - 1) : hs[i] <= hs[i + 1]

StoreFrames ==
    {[index_name |-> n, rows |-> [i \in DOMAIN hs |-> Bar(hs[i])]] :
        n \in IndexNames,
        hs \in {x \in SeqsUpTo(1..MaxTs, MaxBatch) : Chronological(x)}}

(***************************************************************************)
(* Table stock_prices (database.py, init_db).                              *)
(***************************************************************************)
NULL == "NULL"

\* the rows of the table with ticker = t, as a bag
WhereTicker(table, t) ==
    LET keys == {r \in BagToSet(table) : r.ticker = t}
    IN [r \in keys |-> table[r]]

\* mutant: stock_prices created without its PRIMARY KEY
PrimaryKeyOK_absent(table, row) == TRUE

\* PRIMARY KEY (ticker, timestamp): may row be inserted into table
PrimaryKeyOK(table, row) ==
    \A r \in BagToSet(table) :
        ~(r.ticker = row.ticker /\ r.timestamp = row.timestamp)

\* mutant: the oldest stored timestamp is taken for the watermark
MaxTimestamp_oldest(table, t) ==
    LET stamps == {r.timestamp : r \in BagToSet(WhereTicker(table, t))}
    IN IF stamps = {} THEN NULL
       ELSE CHOOSE m \in stamps : \A o \in stamps : ~TextLess(o, m)

\* SELECT MAX(timestamp) FROM stock_prices WHERE ticker = t (TEXT maximum,
\* NULL when the ticker has no row)
MaxTimestamp(table, t) ==
    LET stamps == {r.timestamp : r \in BagToSet(WhereTicker(table, t))}
    IN IF stamps = {} THEN NULL
       ELSE CHOOSE m \in stamps : \A o \in stamps : ~TextLess(m, o)

\* executemany of INSERT INTO stock_prices: row after row, stopping at the
\* first row the primary key rejects
InsertRows(table, rows) ==
    LET inserted(n) ==
            [r \in {rows[i] : i \in 1..n} |->
                Cardinality({i \in 1..n : rows[i] = r})]
        rejected ==
            {i \in DOMAIN rows :
                ~PrimaryKeyOK(table (+) inserted(i - 1), rows[i])}
        n == IF rejected = {} THEN Len(rows)
             ELSE (CHOOSE i \in rejected : \A j \in rejected : i <= j) - 1
    IN [table |-> table (+) inserted(n), ok |-> rejected = {}]

\* mutant: rows are committed one by one, nothing is rolled back
to_sql_no_rollback(table, rows) ==
    LET r == InsertRows(table, rows)
    IN [table |-> r.table, raised |-> ~r.ok]

\* df_to_save.to_sql('stock_prices', conn, if_exists='append', index=False):
\* one transaction; an IntegrityError rolls every row back and is raised
to_sql(table, rows) ==
    LET r == InsertRows(table, rows)
    IN IF r.ok THEN [table |-> r.table, raised |-> FALSE]
       ELSE [table |-> table, raised |-> TRUE]

\* the frame's row i as a row of the table (timestamp adapted to TEXT)
TableRow(bar, t) ==
    [ticker |-> t, timestamp |-> FormatTs(bar.timestamp),
     close |-> bar.close, volume |-> bar.volume]

\* lines 112-139 of save_stock_data, last_date being what line 109 read: the
\* table afterwards and what was printed (saved = n: "Saved n records",
\* 0: "No new data", -1: "Error saving data")
AppendAfter(table, df, t, last_date) ==
    LET col == IF df.index_name \in {"Date", "Datetime"} THEN "timestamp"
               ELSE df.index_name
        failed == [table |-> table, saved |-> -1]
    IN IF last_date # NULL /\ col # "timestamp"
       THEN failed                                   \* KeyError: 'timestamp'
       ELSE LET df_to_save ==
                    SelectSeq(df.rows,
                              LAMBDA bar :
                                 last_date = NULL
                                 \/ bar.timestamp > to_datetime(last_date))
            IN IF df_to_save = <<>>
               THEN [table |-> table, saved |-> 0]
               ELSE IF col # "timestamp"
               THEN failed                           \* no such column
               ELSE LET w == to_sql(table,
                                    [i \in DOMAIN df_to_save |->
                                       TableRow(df_to_save[i], t)])
                    IN IF w.raised THEN [table |-> w.table, saved |-> -1]
                       ELSE [table |-> w.table, saved |-> Len(df_to_save)]

\* save_stock_data(df, ticker) run without interruption
save_stock_data(table, df, t) ==
    AppendAfter(table, df, t, MaxTimestamp(table, t))

RECURSIVE SortRows(_, _)
\* the rows of set S by ascending timestamp, each as often as bag b holds it
SortRows(S, b) ==
    IF S = {} THEN <<>>
    ELSE LET r == CHOOSE x \in S :
                      \A o \in S : ~TextLess(o.timestamp, x.timestamp)
         IN [i \in 1..b[r] |-> r] \o SortRows(S \ {r}, b)

\* ORDER BY timestamp ASC over a bag of rows
OrderByTimestamp(b) == SortRows(BagToSet(b), b)

\* load_stock_data(ticker): the rows in timestamp order, timestamps parsed
load_stock_data(table, t) ==
    LET q == OrderByTimestamp(WhereTicker(table, t))
    IN [i \in DOMAIN q |->
          [timestamp |-> to_datetime(q[i].timestamp),
           close |-> q[i].close, volume |-> q[i].volume]]

(***************************************************************************)
(* The time-series store: Spec.                                            *)
(***************************************************************************)
NoCall == [op |-> "none", ticker |-> NULL, ret |-> NULL]

\* no run of update_database and no call of save_pick is in flight
NoProcs == <<>>

Init ==
    /\ stock_prices = EmptyBag
    /\ past_picks = <<>>
    /\ last = NoCall
    /\ args = NULL
    /\ procs = NoProcs

SaveStockData ==
    \E t \in StoreTickers, df \in StoreFrames :
        LET r == save_stock_data(stock_prices, df, t)
        IN /\ stock_prices' = r.table
           /\ last' = [op |-> "save_stock_data", ticker |-> t, ret |-> r.saved]
           /\ UNCHANGED <<past_picks, args, procs>>

LoadStockData ==
    \E t \in StoreTickers :
        /\ last' = [op |-> "load_stock_data", ticker |-> t,
                    ret |-> load_stock_data(stock_prices, t)]
        /\ UNCHANGED <<stock_prices, past_picks, args, procs>>

Next == SaveStockData \/ LoadStockData

Spec == Init /\ [][Next]_vars

(***************************************************************************)
(* Table past_picks (database.py, init_db and save_pick).                  *)
(***************************************************************************)
PickKeys ==
    {[date |-> "2024-01-02", ticker |-> "KO", strategy |-> "conservative", timeframe |-> "day"],
     [date |-> "2024-01-03", ticker |-> "KO", strategy |-> "conservative", timeframe |-> "day"],
     [date |-> "2024-01-02", ticker |-> "PG", strategy |-> "conservative", timeframe |-> "day"],
     [date |-> "2024-01-02", ticker |-> "KO", strategy |-> "moonshot", timeframe |-> "day"],
     [date |-> "2024-01-02", ticker |-> "KO", strategy |-> "conservative", timeframe |-> "week"]}

\* the pick_data dicts handed to save_pick
PickData ==
    {[date |-> k.date, ticker |-> k.ticker, strategy |-> k.strategy,
      timeframe |-> k.timeframe, entry_price |-> 100, predicted_price |-> 103,
      confidence_score |-> c, signals |-> "Fair Value RSI"] :
        k \in PickKeys, c \in {40, 80}}

\* mutant: the duplicate check forgets the strategy
SamePick_no_strategy(r, p) ==
    r.date = p.date /\ r.ticker = p.ticker /\ r.timeframe = p.timeframe

\* WHERE date = ? AND ticker = ? AND timeframe = ? AND strategy = ?
SamePick(r, p) ==
    /\ r.date = p.date
    /\ r.ticker = p.ticker
    /\ r.timeframe = p.timeframe
    /\ r.strategy = p.strategy

\* save_pick(pick_data): the table afterwards and the value returned
save_pick(table, p) ==
    LET existing == SelectSeq(table, LAMBDA r : SamePick(r, p))
    IN IF existing = <<>>
       THEN [table |-> Append(table,
                 [id |-> Len(table) + 1, date |-> p.date, ticker |-> p.ticker,
                  strategy |-> p.strategy, timeframe |-> p.timeframe,
                  entry_price |-> p.entry_price,
                  predicted_price |-> p.predicted_price,
                  confidence_score |-> p.confidence_score,
                  signals |-> p.signals]),
             ret |-> TRUE]
       ELSE [table |-> table, ret |-> FALSE]

(***************************************************************************)
(* The pick ledger: SpecLedger.                                            *)
(***************************************************************************)
SavePick ==
    /\ Len(past_picks) < MaxPicks
    /\ \E p \in PickData :
          LET r == save_pick(past_picks, p)
          IN /\ past_picks' = r.table
             /\ last' = [op |-> "save_pick", ticker |-> p.ticker, ret |-> r.ret]
             /\ UNCHANGED <<stock_prices, args, procs>>

NextLedger == SavePick

SpecLedger == Init /\ [][NextLedger]_vars

(***************************************************************************)
(* Claims about the store.                                                 *)
(***************************************************************************)

\* C1: append_bars is idempotent: in every store state, for every instrument
\* and frame, saving the frame a second time directly after the first leaves
\* the rows of stock_prices (count and content) as they were after the first.
C1_AppendIdempotent ==
    \A t \in StoreTickers, df \in StoreFrames :
        LET first == save_stock_data(stock_prices, df, t).table
        IN save_stock_data(first, df, t).table = first

\* a save has just stored rows, and handing the same rows again stores nothing
C1_Witness ==
    /\ last.op = "save_stock_data"
    /\ last.ret >= 2
    /\ \E df \in StoreFrames :
          /\ Len(df.rows) = last.ret
          /\ df.index_name = "Datetime"
          /\ \A i \in DOMAIN df.rows :
                BagIn(TableRow(df.rows[i], last.ticker), stock_prices)
          /\ save_stock_data(stock_prices, df, last.ticker)
                = [table |-> stock_prices, saved |-> 0]

\* C2: the store holds at most one bar per (instrument, timestamp), and
\* load_series returns the instrument's bars, all of them, in strictly
\* increasing timestamp order (the empty Series when none are stored).
C2_OneBarPerKeySorted ==
    /\ \A r \in BagToSet(stock_prices) : CopiesIn(r, stock_prices) = 1
    /\ \A r1, r2 \in BagToSet(stock_prices) :
          (r1.ticker = r2.ticker /\ r1.timestamp = r2.timestamp) => r1 = r2
    /\ \A t \in StoreTickers :
          LET s == load_stock_data(stock_prices, t)
              stored == {r \in BagToSet(stock_prices) : r.ticker = t}
          IN /\ \A i \in 1..(Len(s) - 1) : s[i].timestamp < s[i + 1].timestamp
             /\ Len(s) = Cardinality(stored)
             /\ {FormatTs(s[i].timestamp) : i \in DOMAIN s}
                   = {r.timestamp : r \in stored}
    /\ last.op = "load_stock_data"
          => last.ret = load_stock_data(stock_prices, last.ticker)

\* a load returned bars that arrived in separate batches (an hour is missing
\* between them) while the other instrument has bars too
C2_Witness ==
    /\ last.op = "load_stock_data"
    /\ Len(last.ret) >= 2
    /\ last.ret[1].timestamp + 1 < last.ret[2].timestamp
    /\ \A t \in StoreTickers : load_stock_data(stock_prices, t) # <<>>

\* the hours stored for instrument t
StoredHours(table, t) ==
    {to_datetime(r.timestamp) : r \in BagToSet(WhereTicker(table, t))}

\* the latest hour stored for instrument t, 0 when nothing is stored
Watermark(table, t) ==
    IF StoredHours(table, t) = {} THEN 0
    ELSE CHOOSE m \in StoredHours(table, t) :
            \A h \in StoredHours(table, t) : h <= m

\* a frame as the provider delivers a Series: a Date or Datetime index and
\* strictly increasing timestamps
IsSeries(df) ==
    /\ df.index_name \in {"Date", "Datetime"}
    /\ \A i \in 1..(Len(df.rows) - 1) :
          df.rows[i].timestamp < df.rows[i + 1].timestamp

\* C19: append_bars(i, B) is append-only with an exact write set: the store
\* after the call is the store before plus exactly the bars of the Series B
\* whose timestamp is above the maximum stored for i (all of B when nothing is
\* stored for i); for every frame, every bar stored before, of i and of every
\* other instrument, is unchanged, and no instrument's watermark decreases.
C19_ExactWriteSet ==
    \A t \in StoreTickers :
        LET watermark == Watermark(stock_prices, t)
            others == {u \in StoreTickers : u # t}
            before == [u \in others |-> WhereTicker(stock_prices, u)]
        IN \A df \in StoreFrames :
              LET after == save_stock_data(stock_prices, df, t).table
                  new == {TableRow(df.rows[i], t) :
                            i \in {j \in DOMAIN df.rows :
                                     df.rows[j].timestamp > watermark}}
              IN /\ IsSeries(df) => after = stock_prices (+) SetToBag(new)
                 /\ stock_prices \sqsubseteq after
                 /\ Watermark(after, t) >= watermark
                 /\ \A u \in others : WhereTicker(after, u) = before[u]

\* a save has just appended one bar to an instrument that had bars already,
\* while the other instrument has bars too
C19_Witness ==
    /\ last.op = "save_stock_data"
    /\ last.ret = 1
    /\ Cardinality(StoredHours(stock_prices, last.ticker)) >= 2
    /\ \A u \in StoreTickers : StoredHours(stock_prices, u) # {}

\* C3: the ledger holds at most one record per (date, instrument, strategy,
\* horizon); record_pick of a key already present returns False and changes
\* nothing, of an absent key appends exactly that record and returns True.
C3_OnePickPerKey ==
    LET Key(r) == <<r.date, r.ticker, r.strategy, r.timeframe>>
    IN /\ \A i, j \in DOMAIN past_picks :
             Key(past_picks[i]) = Key(past_picks[j]) => i = j
       /\ \A p \in PickData :
             LET r == save_pick(past_picks, p)
                 n == Len(past_picks)
             IN IF \E i \in DOMAIN past_picks : Key(past_picks[i]) = Key(p)
                THEN r.ret = FALSE /\ r.table = past_picks
                ELSE /\ r.ret = TRUE
                     /\ Len(r.table) = n + 1
                     /\ SubSeq(r.table, 1, n) = past_picks
                     /\ Key(r.table[n + 1]) = Key(p)
                     /\ r.table[n + 1].confidence_score = p.confidence_score

\* a pick whose key was already in the ledger has just been refused
C3_Witness ==
    /\ last.op = "save_pick"
    /\ last.ret = FALSE
    /\ Len(past_picks) >= 2

(***************************************************************************)
(* Numbers of analysis.py.  Prices, averages and ratios are exact          *)
(* fractions <<numerator, denominator>> (floating-point rounding is not    *)
(* modelled); <<0, 0>> is NaN and <<n, 0>> with n > 0 is +inf.             *)
(***************************************************************************)
R(n) == <<n, 1>>

NaN == <<0, 0>>

RECURSIVE GCD(_, _)
GCD(a, b) == IF b = 0 THEN a ELSE GCD(b, a % b)

Abs(x) == IF x < 0 THEN -x ELSE x

\* the fraction in lowest terms with a positive denominator
Norm(q) ==
    IF q[2] = 0 THEN <<IF q[1] > 0 THEN 1 ELSE IF q[1] < 0 THEN -1 ELSE 0, 0>>
    ELSE LET g == GCD(Abs(q[1]), Abs(q[2]))
             sgn == IF q[2] < 0 THEN -1 ELSE 1
         IN <<sgn * (q[1] \div g), sgn * (q[2] \div g)>>

RLt(a, b) == a # NaN /\ b # NaN /\ a[1] * b[2] < b[1] * a[2]
RGt(a, b) == RLt(b, a)
RLe(a, b) == a # NaN /\ b # NaN /\ a[1] * b[2] <= b[1] * a[2]
REq(a, b) == a # NaN /\ b # NaN /\ a[1] * b[2] = b[1] * a[2]
RAdd(a, b) == Norm(<<a[1] * b[2] + b[1] * a[2], a[2] * b[2]>>)
RSub(a, b) == Norm(<<a[1] * b[2] - b[1] * a[2], a[2] * b[2]>>)
RMul(a, b) == Norm(<<a[1] * b[1], a[2] * b[2]>>)
RDiv(a, b) == Norm(<<a[1] * b[2], a[2] * b[1]>>)

\* mutant: NaN cells are left as they are
fillna_absent(q) == q

\* df.fillna(0) on one cell
fillna(q) == IF q = NaN THEN R(0) ELSE q

(***************************************************************************)
(* analysis.py: allow-lists and columns.                                   *)
(***************************************************************************)
CONSERVATIVE_TICKERS ==
    {"PG", "KO", "PEP", "WMT", "JNJ", "PFE", "XOM", "CVX", "JPM", "BAC"}
MOONSHOT_TICKERS ==
    {"COIN", "PLTR", "DKNG", "ROKU", "SQ", "ARKK", "NVDA", "TSLA", "AMD"}
INDICES == {"SPY", "QQQ", "IWM"}

Strategies == {"conservative", "moonshot", "balanced"}

\* the minimum number of rows calculate_metrics and score_stock ask for
L_min == 50

IndicatorCols ==
    {"RSI", "MACD", "MACD_SIGNAL", "SMA_20", "SMA_50", "SMA_200", "BBL", "BBU",
     "VOLATILITY", "VOL_SMA_20", "ADX", "ATR", "RVOL"}

BarCols == {"close", "volume"}

AllCols == BarCols \cup IndicatorCols

(***************************************************************************)
(* A DataFrame is [n, cols, rows]: its row count, the columns it has and   *)
(* its rows 1..n (df.iloc[-1] is rows[n]).                                 *)
(***************************************************************************)
iloc_last(df) == df.rows[df.n]

\* the values pandas_ta computes for a row: its ADX_14, RSI_14, MACD line and
\* signal, Bollinger bands and ATR_14.  pandas_ta is a library outside the
\* repository: its results are an input of calculate_metrics.
LibRow(adx, rsi, macd, width, atr) ==
    [ADX |-> R(adx), RSI |-> R(rsi), MACD |-> R(macd), MACD_SIGNAL |-> R(0),
     BBL |-> R(100 - width), BBU |-> R(100 + width), ATR |-> R(atr)]

LibRows ==
    {LibRow(adx, rsi, macd, width, atr) :
        adx \in {15, 30}, rsi \in {50, 65}, macd \in {-1, 1},
        width \in {1, 3}, atr \in {0, 2}}

RECURSIVE SumOf(_, _, _, _)
\* the sum of column c over rows lo..hi of s
SumOf(s, c, lo, hi) ==
    IF hi < lo THEN 0 ELSE s[hi][c] + SumOf(s, c, lo, hi - 1)

\* ta.sma(column, length=k) at row i: NaN until k rows are available
sma(s, c, k, i) == IF i < k THEN NaN ELSE Norm(<<SumOf(s, c, i - k + 1, i), k>>)

\* calculate_metrics, lines 12-16: every indicator column is set to 0
ZeroMetrics(s) ==
    [n |-> Len(s), cols |-> AllCols,
     rows |-> [i \in DOMAIN s |->
                 [c \in AllCols |->
                    IF c \in BarCols THEN R(s[i][c]) ELSE R(0)]]]

\* calculate_metrics, lines 18-76: the indicators of every row, NaN filled
\* with 0 (lib: what pandas_ta returns for the series)
ComputedMetrics(s, lib) ==
    [n |-> Len(s), cols |-> AllCols,
     rows |-> [i \in DOMAIN s |->
        LET close == R(s[i].close)
            volume == R(s[i].volume)
            vol_sma_20 == sma(s, "volume", 20, i)
        IN [close |-> close,
            volume |-> volume,
            SMA_20 |-> fillna(sma(s, "close", 20, i)),
            SMA_50 |-> fillna(sma(s, "close", 50, i)),
            SMA_200 |-> fillna(sma(s, "close", 200, i)),
            ADX |-> fillna(lib.ADX),
            RSI |-> fillna(lib.RSI),
            MACD |-> fillna(lib.MACD),
            MACD_SIGNAL |-> fillna(lib.MACD_SIGNAL),
            BBL |-> fillna(lib.BBL),
            BBU |-> fillna(lib.BBU),
            VOLATILITY |-> fillna(RDiv(RSub(lib.BBU, lib.BBL), close)),
            ATR |-> fillna(lib.ATR),
            VOL_SMA_20 |-> fillna(vol_sma_20),
            RVOL |-> fillna(RDiv(volume, vol_sma_20))]]]

\* mutant: the short-series guard is missing
calculate_metrics_unguarded(s, lib) == ComputedMetrics(s, lib)

\* calculate_metrics(df) for the loaded series s
calculate_metrics(s, lib) ==
    IF Len(s) < L_min THEN ZeroMetrics(s) ELSE ComputedMetrics(s, lib)

(***************************************************************************)
(* analysis.py: score_stock.                                               *)
(***************************************************************************)
Returned(score, target, reasons) ==
    [raised |-> FALSE, score |-> score, target |-> target, reasons |-> reasons]

\* current['X'] of a column the frame does not have
KeyError ==
    [raised |-> TRUE, score |-> NULL, target |-> NULL, reasons |-> NULL]

Min(a, b) == IF a < b THEN a ELSE b
Max(a, b) == IF a > b THEN a ELSE b

\* mutant: the score is returned as computed
Cap_absent(score) == score

\* score = min(100, max(0, score))
Cap(score) == Min(100, Max(0, score))

\* lines 91-102: the trend filter
TrendScore(current) ==
    (IF RGt(current.close, current.SMA_50)
     THEN 10 + (IF RGt(current.SMA_50, current.SMA_200) THEN 10 ELSE 0)
     ELSE 0)
    + (IF RGt(current.ADX, R(25)) THEN 10
       ELSE IF RLt(current.ADX, R(20)) THEN -5 ELSE 0)

\* the columns lines 92-101 read with current[...]
TrendReads(current) ==
    {"close", "SMA_50", "ADX"}
    \cup (IF RGt(current.close, current.SMA_50) THEN {"SMA_200"} ELSE {})

\* lines 98-100: the reason the trend filter appends
TrendReasons(current) ==
    IF RGt(current.ADX, R(25)) THEN <<"Strong Trend">> ELSE <<>>

\* lines 108 and 133: the strategy's allow-list
Eligible(ticker, strategy) ==
    CASE strategy = "conservative" ->
            ticker \in CONSERVATIVE_TICKERS \/ ticker \in INDICES
      [] strategy = "moonshot" -> ticker \in MOONSHOT_TICKERS
      [] OTHER -> TRUE

\* lines 112-129: conservative, pullback in an uptrend
ConservativeScore(current, volatility, trend_score) ==
    IF trend_score >= 20
    THEN 40
         + (IF RLe(R(40), current.RSI) /\ RLe(current.RSI, R(60)) THEN 20
            ELSE IF RLt(current.RSI, R(40)) THEN 30
            ELSE IF RGt(current.RSI, R(70)) THEN -20 ELSE 0)
         + (IF RLt(volatility, <<3, 100>>) THEN 10 ELSE -10)
    ELSE 0

ConservativeReasons(current, trend_score) ==
    IF trend_score >= 20
    THEN IF RLe(R(40), current.RSI) /\ RLe(current.RSI, R(60))
         THEN <<"Fair Value RSI">>
         ELSE IF RLt(current.RSI, R(40)) THEN <<"Oversold Opportunity">> ELSE <<>>
    ELSE <<>>

\* lines 137-156: moonshot, high momentum breakout
MoonshotScore(current, rvol, trend_score) ==
    (IF trend_score >= 10 THEN 20 ELSE 0)
    + (IF RGt(rvol, <<3, 2>>) THEN 25
       ELSE IF RGt(rvol, <<6, 5>>) THEN 10 ELSE 0)
    + (IF RLt(R(55), current.RSI) /\ RLt(current.RSI, R(75)) THEN 25
       ELSE IF RGt(current.RSI, R(80)) THEN -10 ELSE 0)
    + (IF RGt(current.MACD, current.MACD_SIGNAL) THEN 10 ELSE 0)

MoonshotReasons(current, rvol) ==
    (IF RGt(rvol, <<3, 2>>) THEN <<"High Inst. Volume">> ELSE <<>>)
    \o (IF RLt(R(55), current.RSI) /\ RLt(current.RSI, R(75))
        THEN <<"Strong Momentum">> ELSE <<>>)

\* the columns the strategy block and the penalty read with current[...]
StrategyReads(strategy, trend_score) ==
    (CASE strategy = "conservative" ->
            IF trend_score >= 20 THEN {"RSI"} ELSE {}
       [] strategy = "moonshot" -> {"RSI", "MACD", "MACD_SIGNAL"}
       [] OTHER -> {})
    \cup {"close", "SMA_200"}

\* mutant: no universal penalty
Penalty_absent(current) == 0

\* lines 159-160: the universal penalty, below the 200 SMA
Penalty(current) == IF RLt(current.close, current.SMA_200) THEN 20 ELSE 0

\* mutant: a zero ATR is used as it is
TargetPrice_no_fallback(close, atr_cell, strategy) ==
    IF strategy = "moonshot"
    THEN RAdd(close, RMul(atr_cell, R(3)))
    ELSE RAdd(close, RMul(atr_cell, <<3, 2>>))

\* lines 166-174: the ATR target
TargetPrice(close, atr_cell, strategy) ==
    LET atr == IF REq(atr_cell, R(0)) THEN RMul(close, <<1, 50>>) ELSE atr_cell
    IN IF strategy = "moonshot"
       THEN RAdd(close, RMul(atr, R(3)))
       ELSE RAdd(close, RMul(atr, <<3, 2>>))

\* mutant: the score starts from the trend score
InitialScore_trend(trend_score) == trend_score

\* line 86: score = 0; the trend score is kept apart from it
InitialScore(trend_score) == 0

\* score_stock(df, ticker, strategy): (score, target_price, reasons), or the
\* KeyError an absent column raises
score_stock(df, ticker, strategy) ==
    IF df.n < L_min THEN Returned(0, R(0), <<"Insufficient Data">>)
    ELSE
    LET current == iloc_last(df)
        get(c, default) == IF c \in df.cols THEN current[c] ELSE default
        trend_score == TrendScore(current)
        score ==
            InitialScore(trend_score) +
            CASE strategy = "conservative" ->
                    ConservativeScore(current, get("VOLATILITY", R(0)), trend_score)
              [] strategy = "moonshot" ->
                    MoonshotScore(current, get("RVOL", R(1)), trend_score)
              [] OTHER -> 0
        reasons ==
            TrendReasons(current)
            \o (CASE strategy = "conservative" ->
                       ConservativeReasons(current, trend_score)
                  [] strategy = "moonshot" ->
                       MoonshotReasons(current, get("RVOL", R(1)))
                  [] OTHER -> <<>>)
        penalty == Penalty(current)
    IN IF ~(TrendReads(current) \subseteq df.cols) THEN KeyError
       ELSE IF ~Eligible(ticker, strategy)
       THEN Returned(0, current.close,
                     IF strategy = "conservative"
                     THEN <<"Not a conservative asset">>
                     ELSE <<"Not a growth asset">>)
       ELSE IF ~(StrategyReads(strategy, trend_score) \subseteq df.cols)
       THEN KeyError
       ELSE Returned(Cap(score - penalty),
                     TargetPrice(current.close,
                                 get("ATR", RMul(current.close, <<1, 50>>)),
                                 strategy),
                     reasons)

(***************************************************************************)
(* The pure functions of analysis.py: SpecScore.                           *)
(***************************************************************************)
ScoreTickers == {"KO", "SPY", "NVDA", "AAPL"}

\* the last row of a frame handed to score_stock
ScoreRow(c, s50, s200, adx, rsi, macd, v, rv, atr) ==
    [close |-> R(c), volume |-> R(1000), SMA_20 |-> R(c), SMA_50 |-> R(s50),
     SMA_200 |-> R(s200), ADX |-> R(adx), RSI |-> R(rsi), MACD |-> R(macd),
     MACD_SIGNAL |-> R(0), BBL |-> R(c - 1), BBU |-> R(c + 1),
     VOLATILITY |-> Norm(<<v, 100>>), VOL_SMA_20 |-> R(1000), ATR |-> R(atr),
     RVOL |-> Norm(<<rv, 10>>)]

ScoreRows ==
    {ScoreRow(c, s50, s200, adx, rsi, macd, v, rv, atr) :
        c \in {90, 100}, s50 \in {0, 95}, s200 \in {0, 92, 110},
        adx \in {15, 20, 25, 30}, rsi \in {30, 50, 65, 72, 85},
        macd \in {-1, 1}, v \in {2, 5}, rv \in {10, 13, 16}, atr \in {0, 2}}

\* last rows of the frames shorter than L_min: zeroed indicators, and live ones
ShortRows ==
    {ScoreRow(c, 0, 0, 0, 0, 0, 0, 0, 0) : c \in {90, 100}}
    \cup {ScoreRow(100, 95, 92, 30, 50, 1, 2, 16, 2)}

\* frames with every column, and frames that lack indicator columns
ScoreFrames ==
    [n : {L_min, L_min + 1}, cols : {AllCols}, row : ScoreRows]
    \cup [n : {0, 1, L_min - 1}, cols : {AllCols}, row : ShortRows]
    \cup [n : {0, L_min - 1, L_min},
          cols : {BarCols, AllCols \ {"SMA_200"}, AllCols \ {"RSI"},
                  AllCols \ {"ATR"}},
          row : {ScoreRow(100, 95, 92, 30, 50, 1, 2, 16, 2),
                 ScoreRow(90, 95, 92, 30, 50, 1, 2, 16, 2)}]

\* the DataFrame a description [n, cols, row] stands for (score_stock reads
\* its length and its last row)
Frame(d) == [n |-> d.n, cols |-> d.cols, rows |-> [i \in 1..d.n |-> d.row]]

\* the series of the first n hours of the provider's history
Series(n) == [i \in 1..n |-> Bar(i)]

\* series lengths run to L_min + MaxExtra
MaxExtra == 2

\* the calls of score_stock and calculate_metrics that are examined
ScoreArgs ==
    [fn : {"score_stock"}, df : ScoreFrames, ticker : ScoreTickers,
     strategy : Strategies]

MetricsArgs ==
    [fn : {"calculate_metrics"}, n : 0..(L_min + MaxExtra), lib : LibRows]

InitScore ==
    /\ stock_prices = EmptyBag
    /\ past_picks = <<>>
    /\ last = NoCall
    /\ args \in ScoreArgs \cup MetricsArgs
    /\ procs = NoProcs

ScoreStock ==
    /\ last = NoCall
    /\ args.fn = "score_stock"
    /\ last' = [op |-> "score_stock", ticker |-> args.ticker,
                ret |-> score_stock(Frame(args.df), args.ticker, args.strategy)]
    /\ UNCHANGED <<stock_prices, past_picks, args, procs>>

CalculateMetrics ==
    /\ last = NoCall
    /\ args.fn = "calculate_metrics"
    /\ last' = [op |-> "calculate_metrics", ticker |-> NULL,
                ret |-> calculate_metrics(Series(args.n), args.lib)]
    /\ UNCHANGED <<stock_prices, past_picks, args, procs>>

NextScore == ScoreStock \/ CalculateMetrics

SpecScore == InitScore /\ [][NextScore]_vars

(***************************************************************************)
(* Claims about score_stock and calculate_metrics.                         *)
(***************************************************************************)
Restrictive == {"conservative", "moonshot"}

\* C4: for every frame, instrument and strategy, the score score_stock
\* returns is an integer in [0, 100] on every return path, and a frame with
\* every column makes it return.
C4_ScoreInRange ==
    last.op = "score_stock" =>
        /\ args.df.cols = AllCols => ~last.ret.raised
        /\ ~last.ret.raised => last.ret.score \in 0..100

\* an eligible moonshot instrument below its SMA_200 with a blow-off RSI: the
\* sum of its components is negative and the returned score is 0
C4_Witness ==
    /\ last.op = "score_stock"
    /\ args.df.n >= L_min
    /\ args.df.cols = AllCols
    /\ args.strategy = "moonshot"
    /\ Eligible(args.ticker, args.strategy)
    /\ RLt(args.df.row.close, args.df.row.SMA_200)
    /\ RGt(args.df.row.RSI, R(80))
    /\ last.ret.score = 0

\* C5: the eligibility gate is the first step: an instrument off the
\* allow-list of a restrictive strategy gets score 0 and target = last close
\* for every series length, fewer than L_min rows included.
C5_EligibilityGateFirst ==
    (/\ last.op = "score_stock"
     /\ args.df.cols = AllCols
     /\ args.df.n >= 1
     /\ args.strategy \in Restrictive
     /\ ~Eligible(args.ticker, args.strategy))
    => /\ ~last.ret.raised
       /\ last.ret.score = 0
       /\ last.ret.target = args.df.row.close

\* C6: for an ineligible instrument under a restrictive strategy score_stock
\* reads no indicator: whatever columns the frame lacks and whatever its row
\* count, it raises nothing and returns score 0.
C6_IneligibleReadsNoIndicator ==
    (/\ last.op = "score_stock"
     /\ args.strategy \in Restrictive
     /\ ~Eligible(args.ticker, args.strategy))
    => /\ ~last.ret.raised
       /\ last.ret.score = 0

\* C7: for a Series of fewer than L_min bars (the empty one included)
\* calculate_metrics returns a frame of the same length whose indicator
\* columns hold 0 in every row, and score_stock on it returns score 0 and
\* target 0.
C7_ShortSeriesSentinels ==
    (last.op = "calculate_metrics" /\ args.n < L_min) =>
        /\ last.ret.n = args.n
        /\ IndicatorCols \subseteq last.ret.cols
        /\ \A i \in 1..args.n, c \in IndicatorCols : last.ret.rows[i][c] = R(0)
        /\ \A t \in ScoreTickers, st \in Strategies :
              LET r == score_stock(last.ret, t, st)
              IN ~r.raised /\ r.score = 0 /\ r.target = R(0)

\* calculate_metrics has run on a series one bar short of L_min
C7_Witness ==
    /\ last.op = "calculate_metrics"
    /\ args.n = L_min - 1
    /\ last.ret.n = L_min - 1
    /\ last.ret.rows[L_min - 1].close = R(Bar(L_min - 1).close)

\* the score after the strategy-specific component, for a frame with every
\* column
StrategyComponent(row, strategy) ==
    InitialScore(TrendScore(row)) +
    CASE strategy = "conservative" ->
            ConservativeScore(row, row.VOLATILITY, TrendScore(row))
      [] strategy = "moonshot" -> MoonshotScore(row, row.RVOL, TrendScore(row))
      [] OTHER -> 0

\* a call of score_stock on an eligible instrument with sufficient data and
\* every column
EligibleCall ==
    /\ last.op = "score_stock"
    /\ args.df.n >= L_min
    /\ args.df.cols = AllCols
    /\ Eligible(args.ticker, args.strategy)

\* C11: for every eligible instrument with sufficient data whose last close is
\* below the SMA_200 of its last row, under every strategy, the final score is
\* clamp(s - 20) with s the score after the strategy-specific component.
C11_UniversalPenalty ==
    (EligibleCall /\ RLt(args.df.row.close, args.df.row.SMA_200)) =>
        /\ ~last.ret.raised
        /\ last.ret.score
              = Min(100, Max(0, StrategyComponent(args.df.row, args.strategy) - 20))

\* a penalised instrument whose score stays positive: the penalty was taken
\* from the strategy's points and not absorbed by the clamp
C11_Witness ==
    /\ EligibleCall
    /\ RLt(args.df.row.close, args.df.row.SMA_200)
    /\ last.ret.score > 0
    /\ last.ret.score = StrategyComponent(args.df.row, args.strategy) - 20

\* C12: for every eligible instrument with sufficient data and last close > 0
\* the target price is close + k * A, A the last row's ATR, or 2% of close
\* when that ATR is zero or the column is absent, k = 3 for moonshot and 1.5
\* for every other strategy; the target is above the close and positive.
C12_TargetPrice ==
    (/\ last.op = "score_stock"
     /\ args.df.n >= L_min
     /\ Eligible(args.ticker, args.strategy)
     /\ ~last.ret.raised
     /\ RGt(args.df.row.close, R(0))) =>
        LET close == args.df.row.close
            A == IF "ATR" \notin args.df.cols \/ REq(args.df.row.ATR, R(0))
                 THEN RMul(close, <<2, 100>>)
                 ELSE args.df.row.ATR
            k == IF args.strategy = "moonshot" THEN R(3) ELSE <<3, 2>>
        IN /\ REq(last.ret.target, RAdd(close, RMul(k, A)))
           /\ RGt(last.ret.target, close)
           /\ RGt(last.ret.target, R(0))

\* a target computed from the 2% fallback: the ATR of the last row is zero
C12_Witness ==
    /\ EligibleCall
    /\ REq(args.df.row.ATR, R(0))
    /\ ~last.ret.raised
    /\ RGt(last.ret.target, args.df.row.close)

\* the score before the clamp, for a frame with every column
PreClamp(row, strategy) == StrategyComponent(row, strategy) - Penalty(row)

\* C16: the trend component awards points to the score under every strategy:
\* for an eligible instrument with sufficient data, two last rows that differ
\* only in their ADX, one of them earning a different trend bonus, receive
\* different scores before the clamp.
C16_TrendAwardsPoints ==
    EligibleCall =>
        /\ ~last.ret.raised
        /\ last.ret.score = Cap(PreClamp(args.df.row, args.strategy))
        /\ \A adx \in {15, 20, 25, 30} :
              LET other == [args.df.row EXCEPT !.ADX = R(adx)]
              IN TrendScore(other) # TrendScore(args.df.row) =>
                    PreClamp(other, args.strategy)
                       # PreClamp(args.df.row, args.strategy)

\* C17: ADX >= 25, exactly 25 included, receives the strong-trend bonus and
\* its reason tag; ADX < 20 receives the weak-trend penalty; 20 <= ADX < 25
\* receives neither.
C17_AdxThresholds ==
    EligibleCall =>
        LET row == args.df.row
            neutral == [row EXCEPT !.ADX = R(22)]
            bonus == TrendScore(row) - TrendScore(neutral)
            tagged == "Strong Trend" \in Range(last.ret.reasons)
        IN /\ ~last.ret.raised
           /\ RLe(R(25), row.ADX) => (bonus > 0 /\ tagged)
           /\ RLt(row.ADX, R(20)) => (bonus < 0 /\ ~tagged)
           /\ (RLe(R(20), row.ADX) /\ RLt(row.ADX, R(25)))
                 => (bonus = 0 /\ ~tagged)

\* C18: in the frame calculate_metrics returns for a Series of at least L_min
\* bars, RVOL at a row is volume / 20-bar average volume when that average
\* is positive, and the default 1 when the average is zero or unavailable.
C18_RvolDefault ==
    (last.op = "calculate_metrics" /\ args.n >= L_min) =>
        \A i \in 1..args.n :
            LET avg == sma(Series(args.n), "volume", 20, i)
                volume == R(Series(args.n)[i].volume)
            IN last.ret.rows[i].RVOL
                  = IF RGt(avg, R(0)) THEN RDiv(volume, avg) ELSE R(1)

\* C21: for every Series with at least L_min but fewer than 200 bars,
\* calculate_metrics leaves SMA_200 of the last row at the sentinel 0;
\* therefore in score_stock (close > 0) the below-200-SMA penalty is never
\* applied and the SMA_50 > SMA_200 bonus is granted whenever close > SMA_50.
C21_Sma200Sentinel ==
    (last.op = "calculate_metrics" /\ args.n >= L_min /\ args.n < 200) =>
        LET row == iloc_last(last.ret)
            adx_part == IF RGt(row.ADX, R(25)) THEN 10
                        ELSE IF RLt(row.ADX, R(20)) THEN -5 ELSE 0
        IN /\ row.SMA_200 = R(0)
           /\ RGt(row.close, R(0)) =>
                 /\ Penalty(row) = 0
                 /\ RGt(row.close, row.SMA_50) =>
                       TrendScore(row) = 20 + adx_part
                 /\ \A t \in ScoreTickers, st \in Strategies :
                       Eligible(t, st) =>
                          score_stock(last.ret, t, st).score
                             = Cap(StrategyComponent(row, st))

\* calculate_metrics has run on a series longer than L_min whose last close
\* is above a positive SMA_50
C21_Witness ==
    /\ last.op = "calculate_metrics"
    /\ args.n > L_min
    /\ RGt(iloc_last(last.ret).SMA_50, R(0))
    /\ RGt(iloc_last(last.ret).close, iloc_last(last.ret).SMA_50)
    /\ iloc_last(last.ret).SMA_200 = R(0)

(***************************************************************************)
(* analysis.py: get_top_picks.                                             *)
(***************************************************************************)
Timeframes == {"day", "week", "month", "quarter"}

\* lines 183-187: the universe filtered by strategy, in input order
TargetTickers(tickers, strategy) ==
    CASE strategy = "conservative" ->
            SelectSeq(tickers,
                      LAMBDA t : t \in CONSERVATIVE_TICKERS \/ t \in INDICES)
      [] strategy = "moonshot" ->
            SelectSeq(tickers, LAMBDA t : t \in MOONSHOT_TICKERS)
      [] OTHER -> tickers

\* mutant: the multiplier scales the target itself
HorizonPrediction_absolute(current_price, prediction, timeframe) ==
    CASE timeframe = "week" -> RMul(prediction, R(2))
      [] timeframe = "month" -> RMul(prediction, R(4))
      [] timeframe = "quarter" -> RMul(prediction, R(8))
      [] OTHER -> prediction

\* lines 201-209: the prediction adjusted for the timeframe
HorizonPrediction(current_price, prediction, timeframe) ==
    LET upside_raw == RDiv(RSub(prediction, current_price), current_price)
        scaled(m) == RMul(current_price, RAdd(R(1), RMul(upside_raw, R(m))))
    IN CASE timeframe = "week" -> scaled(2)
         [] timeframe = "month" -> scaled(4)
         [] timeframe = "quarter" -> scaled(8)
         [] OTHER -> prediction

\* lines 190-198 for one ticker: <<>> when nothing is stored for it, else
\* the latest row of its metrics and what score_stock returned
ScoreOne(table, ticker, strategy, lib) ==
    LET s == load_stock_data(table, ticker)
    IN IF s = <<>> THEN <<>>
       ELSE LET df == calculate_metrics(s, lib)
            IN <<[Ticker |-> ticker,
                  current |-> iloc_last(df),
                  r |-> score_stock(df, ticker, strategy)]>>

RECURSIVE ScoreAll(_, _, _, _)
\* lines 189-198 over target_tickers, in loop order
ScoreAll(table, tickers, strategy, libs) ==
    IF tickers = <<>> THEN <<>>
    ELSE ScoreOne(table, Head(tickers), strategy, libs[Head(tickers)])
         \o ScoreAll(table, Tail(tickers), strategy, libs)

\* lines 199-235 for one scored ticker: <<>> when it is skipped, else its row
PickRow(e, timeframe, min_score) ==
    LET current == e.current
        current_price == current.close
        prediction == HorizonPrediction(current_price, e.r.target, timeframe)
    IN IF e.r.score < min_score THEN <<>>
       ELSE <<[Ticker |-> e.Ticker,
               Current_Price |-> current_price,
               Predicted_Price |-> prediction,
               Upside |-> RMul(RDiv(RSub(prediction, current_price),
                                    current_price), R(100)),
               Confidence_Score |-> e.r.score,
               Signals |-> e.r.reasons,
               Volatility |-> current.VOLATILITY,
               Volume_Change |->
                   IF RGt(current.VOL_SMA_20, R(0))
                   THEN RDiv(RSub(current.volume, current.VOL_SMA_20),
                             current.VOL_SMA_20)
                   ELSE R(0),
               ADX |-> current.ADX,
               RVOL |-> current.RVOL]>>

RECURSIVE PickRows(_, _, _)
\* the results list of lines 199-235, in loop order
PickRows(scored, timeframe, min_score) ==
    IF scored = <<>> THEN <<>>
    ELSE PickRow(Head(scored), timeframe, min_score)
         \o PickRows(Tail(scored), timeframe, min_score)

\* results_df.sort_values(by='Confidence Score', ascending=False): pandas'
\* default kind is quicksort, which is not a stable sort, so every order of
\* the rows that is descending by score is a possible outcome
sort_values(results) ==
    LET n == Len(results)
        perms == {p \in [1..n -> 1..n] : \A i, j \in 1..n : p[i] = p[j] => i = j}
    IN {[i \in 1..n |-> results[p[i]]] :
          p \in {q \in perms :
                   \A i \in 1..(n - 1) :
                      results[q[i]].Confidence_Score
                         >= results[q[i + 1]].Confidence_Score}}

\* get_top_picks(tickers, timeframe, strategy, min_score): the frames it can
\* return (libs: what pandas_ta returns for each ticker's series), each with
\* the trace of the loop: the close and score_stock's (score, target) of
\* every ticker that had data
get_top_picks(table, tickers, timeframe, strategy, min_score, libs) ==
    LET scored == ScoreAll(table, TargetTickers(tickers, strategy), strategy,
                           libs)
        trace == [i \in DOMAIN scored |->
                    [Ticker |-> scored[i].Ticker,
                     close |-> scored[i].current.close,
                     score |-> scored[i].r.score,
                     target |-> scored[i].r.target]]
    IN {[ret |-> out, scored |-> trace] :
          out \in sort_values(PickRows(scored, timeframe, min_score))}

(***************************************************************************)
(* get_top_picks over stored series: SpecPicks.                            *)
(***************************************************************************)
\* the universe in two input orders
PickUniverses ==
    {<<"KO", "PG", "SPY", "NVDA">>, <<"NVDA", "SPY", "PG", "KO">>}

\* how many hours of history each ticker has in the store
PickLens ==
    {[KO |-> k, PG |-> L_min, SPY |-> L_min + MaxExtra, NVDA |-> L_min] :
        k \in {0, 1, L_min - 1, L_min}}

RECURSIVE StoreOf(_, _)
\* the store after update_database has saved lens[t] hours for every ticker
StoreOf(tickers, lens) ==
    IF tickers = <<>> THEN EmptyBag
    ELSE save_stock_data(StoreOf(Tail(tickers), lens),
                         [index_name |-> "Datetime",
                          rows |-> Series(lens[Head(tickers)])],
                         Head(tickers)).table

\* what pandas_ta returns for the tickers' series
PickLibs ==
    LET some == {LibRow(30, 50, 1, 1, 2), LibRow(30, 65, 1, 3, 0),
                 LibRow(15, 50, -1, 1, 2)}
    IN {[KO |-> a, PG |-> b, SPY |-> c, NVDA |-> LibRow(30, 65, 1, 1, 2)] :
          a \in some,
          b \in {LibRow(30, 50, 1, 1, 2), LibRow(30, 65, 1, 3, 0)},
          c \in {LibRow(30, 50, 1, 1, 2), LibRow(30, 65, 1, 3, 0)}}

PicksArgs ==
    [fn : {"get_top_picks"}, tickers : PickUniverses, timeframe : Timeframes,
     strategy : Strategies, min_score : {0, 30}, libs : PickLibs]

InitPicks ==
    /\ stock_prices \in {StoreOf(<<"KO", "PG", "SPY", "NVDA">>, lens) :
                            lens \in PickLens}
    /\ past_picks = <<>>
    /\ last = NoCall
    /\ args \in PicksArgs
    /\ procs = NoProcs

GetTopPicks ==
    /\ last = NoCall
    /\ args.fn = "get_top_picks"
    /\ \E out \in get_top_picks(stock_prices, args.tickers, args.timeframe,
                                args.strategy, args.min_score, args.libs) :
          last' = [op |-> "get_top_picks", ticker |-> NULL, ret |-> out.ret,
                   scored |-> out.scored]
    /\ UNCHANGED <<stock_prices, past_picks, args, procs>>

NextPicks == GetTopPicks

SpecPicks == InitPicks /\ [][NextPicks]_vars

(***************************************************************************)
(* Claims about get_top_picks.                                             *)
(***************************************************************************)
\* the position of ticker t in the input universe
Position(tickers, t) == CHOOSE i \in DOMAIN tickers : tickers[i] = t

\* C8: with min_score = 0 get_top_picks returns exactly one row for every
\* instrument of the universe that is eligible for the strategy and has at
\* least L_min stored bars, and no row for one with fewer bars.
C8_ThresholdZeroRows ==
    (last.op = "get_top_picks" /\ args.min_score = 0) =>
        LET expected ==
                {t \in Range(args.tickers) :
                    /\ Eligible(t, args.strategy)
                    /\ Len(load_stock_data(stock_prices, t)) >= L_min}
        IN /\ {last.ret[i].Ticker : i \in DOMAIN last.ret} = expected
           /\ Len(last.ret) = Cardinality(expected)

\* C9: the returned list is in descending score order and rows with equal
\* scores keep the order their tickers have in the input universe.
C9_StableRanking ==
    last.op = "get_top_picks" =>
        \A i, j \in DOMAIN last.ret :
            i < j =>
                \/ last.ret[i].Confidence_Score > last.ret[j].Confidence_Score
                \/ /\ last.ret[i].Confidence_Score = last.ret[j].Confidence_Score
                   /\ Position(args.tickers, last.ret[i].Ticker)
                         < Position(args.tickers, last.ret[j].Ticker)

\* C10: in every returned row the predicted price is close * (1 + m * f),
\* f = (base target - close) / close the upside of score_stock's target and
\* m = 1, 2, 4, 8 for day, week, month, quarter: the multiplier scales the
\* relative upside, not the absolute target.
C10_HorizonRescaling ==
    last.op = "get_top_picks" =>
        \A i \in DOMAIN last.ret :
            LET row == last.ret[i]
                m == CASE args.timeframe = "day" -> 1
                       [] args.timeframe = "week" -> 2
                       [] args.timeframe = "month" -> 4
                       [] args.timeframe = "quarter" -> 8
            IN \E k \in DOMAIN last.scored :
                  LET e == last.scored[k]
                  IN /\ e.Ticker = row.Ticker
                     /\ row.Current_Price = e.close
                     /\ LET f == RDiv(RSub(e.target, e.close), e.close)
                        IN REq(row.Predicted_Price,
                               RMul(e.close, RAdd(R(1), RMul(R(m), f))))

\* a quarter-horizon call returned several rows, one of them with a score of
\* 30 or more and a prediction above its close
C10_Witness ==
    /\ last.op = "get_top_picks"
    /\ args.timeframe = "quarter"
    /\ Len(last.ret) >= 2
    /\ \E i \in DOMAIN last.ret :
          /\ last.ret[i].Confidence_Score >= 30
          /\ RGt(last.ret[i].Predicted_Price, last.ret[i].Current_Price)

\* C20: under the balanced strategy (any strategy other than conservative and
\* moonshot) score_stock returns score 0 for every instrument and frame, so
\* get_top_picks with strategy balanced and min_score >= 1 returns an empty
\* list for every store.
C20_BalancedScoresZero ==
    /\ (/\ last.op = "score_stock"
        /\ args.strategy \notin Restrictive
        /\ ~last.ret.raised) => last.ret.score = 0
    /\ (last.op = "get_top_picks" /\ args.strategy \notin Restrictive) =>
          /\ \A k \in DOMAIN last.scored : last.scored[k].score = 0
          /\ args.min_score >= 1 => last.ret = <<>>

\* a balanced call with the default threshold 30 returned nothing although
\* instruments with L_min bars and more, in a strong uptrend, were scored
C20_Witness ==
    /\ last.op = "get_top_picks"
    /\ args.strategy = "balanced"
    /\ args.min_score = 30
    /\ last.ret = <<>>
    /\ Len(last.scored) = Len(args.tickers)
    /\ \E k \in DOMAIN last.scored :
          /\ RGt(last.scored[k].target, last.scored[k].close)
          /\ RGt(args.libs[last.scored[k].Ticker].ADX, R(25))

(***************************************************************************)
(* data_loader.py: update_database, run by the scheduler's job and by the  *)
(* dashboard's Refresh Data button.  A run walks TICKERS; its steps are    *)
(* the provider request and the two statements save_stock_data sends to    *)
(* SQLite (the SELECT MAX and the INSERT transaction of to_sql), each on   *)
(* a connection of its own.                                                *)
(***************************************************************************)
\* the universe the runs walk
IngestTickers == <<"KO", "NVDA">>

\* update_database is started at most MaxRuns times by each of its callers
MaxRuns == 2

\* the None fetch_data returns
None == [index_name |-> "None", rows |-> <<>>]

\* what stock.history can do: raise, return an empty frame, or return the
\* hourly history up to the current hour
ProviderOutcomes ==
    {[kind |-> "raise", df |-> None], [kind |-> "empty", df |-> None]}
    \cup {[kind |-> "frame",
           df |-> [index_name |-> "Datetime", rows |-> Series(k)]] :
            k \in 1..MaxTs}

\* mutant: fetch_data without its try/except
fetch_data_uncaught(outcome) ==
    CASE outcome.kind = "raise" -> [raised |-> TRUE, df |-> None]
      [] outcome.kind = "empty" -> [raised |-> FALSE, df |-> None]
      [] OTHER -> [raised |-> FALSE, df |-> outcome.df]

\* fetch_data(ticker): the frame, or None when the provider raised or had no
\* data
fetch_data(outcome) ==
    CASE outcome.kind = "raise" -> [raised |-> FALSE, df |-> None]
      [] outcome.kind = "empty" -> [raised |-> FALSE, df |-> None]
      [] OTHER -> [raised |-> FALSE, df |-> outcome.df]

\* a caller of update_database that is not running it
IdleRun ==
    [pc |-> "idle", i |-> 0, df |-> None, last_date |-> NULL, log |-> <<>>,
     start |-> EmptyBag, n |-> 0]

\* the loop of lines 44-49 moves to the next ticker, or the run returns
NextTicker(run, entry) ==
    [run EXCEPT !.pc = IF run.i = Len(IngestTickers) THEN "done" ELSE "fetch",
                !.i = IF run.i = Len(IngestTickers) THEN run.i ELSE run.i + 1,
                !.df = None,
                !.last_date = NULL,
                !.log = Append(run.log, entry)]

\* update_database() is called: init_db, then the loop starts
StartRun(p) ==
    /\ procs[p].pc \in {"idle", "done"}
    /\ procs[p].n < MaxRuns
    /\ procs' = [procs EXCEPT ![p] =
                    [pc |-> "fetch", i |-> 1, df |-> None, last_date |-> NULL,
                     log |-> <<>>, start |-> stock_prices, n |-> procs[p].n + 1]]
    /\ UNCHANGED <<stock_prices, past_picks, last, args>>

\* lines 45-46: df = fetch_data(ticker); a None is skipped
Fetch(p) ==
    /\ procs[p].pc = "fetch"
    /\ \E outcome \in ProviderOutcomes :
          LET run == procs[p]
              t == IngestTickers[run.i]
              r == fetch_data(outcome)
          IN procs' = [procs EXCEPT ![p] =
                IF r.raised THEN [run EXCEPT !.pc = "raised"]
                ELSE IF r.df = None
                THEN NextTicker(run, [ticker |-> t, fetch |-> outcome.kind,
                                      handed |-> FALSE, rows |-> <<>>,
                                      saved |-> 0])
                ELSE [run EXCEPT !.pc = "select", !.df = r.df]]
    /\ UNCHANGED <<stock_prices, past_picks, last, args>>

\* save_stock_data, lines 109-110: the watermark is read
SelectMax(p) ==
    /\ procs[p].pc = "select"
    /\ LET run == procs[p]
           t == IngestTickers[run.i]
       IN procs' = [procs EXCEPT ![p] =
                       [run EXCEPT !.pc = "insert",
                                   !.last_date = MaxTimestamp(stock_prices, t)]]
    /\ UNCHANGED <<stock_prices, past_picks, last, args>>

\* save_stock_data, lines 112-141: the rows above the watermark read before
\* are inserted; then the loop goes on
Insert(p) ==
    /\ procs[p].pc = "insert"
    /\ LET run == procs[p]
           t == IngestTickers[run.i]
           r == AppendAfter(stock_prices, run.df, t, run.last_date)
       IN /\ stock_prices' = r.table
          /\ last' = [op |-> "save_stock_data", ticker |-> t, ret |-> r.saved]
          /\ procs' = [procs EXCEPT ![p] =
                NextTicker(run, [ticker |-> t, fetch |-> "frame",
                                 handed |-> TRUE, rows |-> run.df.rows,
                                 saved |-> r.saved])]
    /\ UNCHANGED <<past_picks, args>>

NextIngest ==
    \E p \in DOMAIN procs : StartRun(p) \/ Fetch(p) \/ SelectMax(p) \/ Insert(p)

\* the scheduler alone runs update_database, hour after hour
InitIngest ==
    /\ stock_prices = EmptyBag
    /\ past_picks = <<>>
    /\ last = NoCall
    /\ args = NULL
    /\ procs = [p \in {"scheduler"} |-> IdleRun]

SpecIngest == InitIngest /\ [][NextIngest]_vars

\* the scheduler's job and the dashboard's Refresh Data run update_database
\* as two operating-system processes, once each
InitRace ==
    /\ stock_prices = EmptyBag
    /\ past_picks = <<>>
    /\ last = NoCall
    /\ args = NULL
    /\ procs = [p \in {"scheduler", "dashboard"} |->
                   [IdleRun EXCEPT !.n = MaxRuns - 1]]

SpecRace == InitRace /\ [][NextIngest]_vars

(***************************************************************************)
(* Claims about ingestion.                                                 *)
(***************************************************************************)
\* C13: a fetch failure (exception or empty result) for one instrument does
\* not abort the batch: no run ends with an exception, and in a finished run
\* every instrument of the universe was fetched, in order; each one whose
\* fetch returned a frame was handed to save_stock_data, and the stored bars
\* of each one whose fetch failed are as they were when the run started.
C13_FetchFailureSkipped ==
    \A p \in DOMAIN procs :
        LET run == procs[p]
        IN /\ run.pc # "raised"
           /\ run.pc = "done" =>
                 /\ [k \in DOMAIN run.log |-> run.log[k].ticker] = IngestTickers
                 /\ \A k \in DOMAIN run.log :
                       LET e == run.log[k]
                       IN IF e.fetch \in {"raise", "empty"}
                          THEN /\ ~e.handed
                               /\ WhereTicker(stock_prices, e.ticker)
                                     = WhereTicker(run.start, e.ticker)
                          ELSE e.handed

\* a finished run whose first fetch raised, whose second stored bars, after an
\* earlier run had stored bars of the first instrument
C13_Witness ==
    \E p \in DOMAIN procs :
        LET run == procs[p]
        IN /\ run.pc = "done"
           /\ run.log[1].fetch = "raise"
           /\ run.log[2].saved >= 1
           /\ WhereTicker(run.start, run.log[1].ticker) # EmptyBag

\* C14: the watermark check and the append of save_stock_data are atomic per
\* instrument: when two runs interleave their steps the store is what some
\* serial order of the calls gives, so every bar a finished call was handed
\* is stored and no (instrument, timestamp) is stored twice.
C14_CheckAndAppendAtomic ==
    /\ \A r1, r2 \in BagToSet(stock_prices) :
          (r1.ticker = r2.ticker /\ r1.timestamp = r2.timestamp) =>
              (r1 = r2 /\ CopiesIn(r1, stock_prices) = 1)
    /\ \A p \in DOMAIN procs :
          \A k \in DOMAIN procs[p].log :
             LET e == procs[p].log[k]
             IN \A i \in DOMAIN e.rows :
                   BagIn(TableRow(e.rows[i], e.ticker), stock_prices)

(***************************************************************************)
(* save_pick called from two dashboard sessions.  Its steps are the two    *)
(* statements it sends to SQLite: the SELECT of line 55 and the INSERT of  *)
(* lines 59-64, each session on a connection of its own.                   *)
(***************************************************************************)
Sessions == {"session1", "session2"}

\* a session that is not inside save_pick
IdleSession == [pc |-> "idle", pick |-> NULL, existing |-> <<>>]

\* lines 54-57: the existence check; a pick that exists returns False
SelectPick(p) ==
    /\ procs[p].pc = "idle"
    /\ Len(past_picks) < MaxPicks
    /\ \E pick \in PickData :
          LET existing == SelectSeq(past_picks, LAMBDA r : SamePick(r, pick))
          IN IF existing = <<>>
             THEN /\ procs' = [procs EXCEPT ![p] =
                                 [pc |-> "insert", pick |-> pick,
                                  existing |-> existing]]
                  /\ UNCHANGED last
             ELSE /\ procs' = [procs EXCEPT ![p] = IdleSession]
                  /\ last' = [op |-> "save_pick", ticker |-> pick.ticker,
                              ret |-> FALSE]
    /\ UNCHANGED <<stock_prices, past_picks, args>>

\* lines 58-65: the INSERT and its commit; returns True
InsertPick(p) ==
    /\ procs[p].pc = "insert"
    /\ LET pick == procs[p].pick
       IN /\ past_picks' = Append(past_picks,
                 [id |-> Len(past_picks) + 1, date |-> pick.date,
                  ticker |-> pick.ticker, strategy |-> pick.strategy,
                  timeframe |-> pick.timeframe,
                  entry_price |-> pick.entry_price,
                  predicted_price |-> pick.predicted_price,
                  confidence_score |-> pick.confidence_score,
                  signals |-> pick.signals])
          /\ last' = [op |-> "save_pick", ticker |-> pick.ticker, ret |-> TRUE]
    /\ procs' = [procs EXCEPT ![p] = IdleSession]
    /\ UNCHANGED <<stock_prices, args>>

NextSessions == \E p \in DOMAIN procs : SelectPick(p) \/ InsertPick(p)

InitSessions ==
    /\ stock_prices = EmptyBag
    /\ past_picks = <<>>
    /\ last = NoCall
    /\ args = NULL
    /\ procs = [p \in Sessions |-> IdleSession]

SpecSessions == InitSessions /\ [][NextSessions]_vars

\* C15: past_picks enforces uniqueness over (date, ticker, strategy,
\* timeframe): also when two save_pick calls for the same key interleave
\* their existence check and their insert, the ledger never holds two rows
\* with the same key.
C15_LedgerKeyUnique ==
    \A i, j \in DOMAIN past_picks :
        (/\ past_picks[i].date = past_picks[j].date
         /\ past_picks[i].ticker = past_picks[j].ticker
         /\ past_picks[i].strategy = past_picks[j].strategy
         /\ past_picks[i].timeframe = past_picks[j].timeframe) => i = j

====
